---- MODULE Spec2Model ----
(***************************************************************************)
(* Model of src/shared/generator.c (systemd): the helpers a unit generator *)
(* uses to create unit files, drop-ins and dependency symlinks in its      *)
(* output directory.                                                       *)
(*                                                                         *)
(* The output directory is the state: the unit files on disk, the stdio    *)
(* streams still open on them (buffered text not yet on disk), the         *)
(* dependency symlinks, the directories and the drop-ins.  Every exported  *)
(* function of generator.c is one action of Spec that runs the whole       *)
(* function.  SpecRace runs generator_open_unit_file and                   *)
(* generator_add_symlink system call by system call in two processes.      *)
(*                                                                         *)
(* Strings are TLA+ strings.  A path is the sequence of its pieces between *)
(* slashes: "/dev/sda1" is <<"", "dev", "sda1">>, "/" is <<"", "">> and    *)
(* "foo.service" is <<"foo.service">>.  Allocation never fails (no         *)
(* log_oom() path is taken).  A failure of the environment is injected     *)
(* into at most one system call per call (io).                             *)
(***************************************************************************)
EXTENDS Integers, Sequences, FiniteSets, TLC

VARIABLES files, open, unitf, links, dirs, dropins, last, ncalls, initrd,
          pc, job, hnd, res

fsvars == <<files, open, unitf, links, dirs, dropins>>
seqvars == <<last, ncalls, initrd>>
racevars == <<pc, job, hnd, res>>
vars == <<files, open, unitf, links, dirs, dropins, last, ncalls, initrd, pc, job, hnd, res>>

\* Longest run of calls explored by Spec.
MaxCalls == 2

\* errno values the code tests for or passes on
EEXIST == 17
EINVAL == 22
ENOENT == 2
EACCES == 13
ENOSPC == 28
EROFS == 30

NULL == "<NULL>"

\* special.h names used by generator.c
SPECIAL_FSCK_ROOT_SERVICE == "systemd-fsck-root.service"
SPECIAL_LOCAL_FS_TARGET == "local-fs.target"
SPECIAL_REMOUNT_FS_SERVICE == "systemd-remount-fs.service"
SPECIAL_INITRD_ROOT_DEVICE_TARGET == "initrd-root-device.target"
SPECIAL_NETWORK_ONLINE_TARGET == "network-online.target"
SPECIAL_NETWORK_TARGET == "network.target"
SYSTEM_DATA_UNIT_PATH == <<"", "usr", "lib", "systemd", "system">>
program_invocation_short_name == "systemd-fstab-generator"

\* The environment failure injected into a call: none, or the system call that fails.
IOFaults == {"none", "fopen", "flush", "mkdir", "symlink", "dropin"}

HookFaults == {"none", "fopen", "flush", "symlink"}

(***************************************************************************)
(* Paths                                                                   *)
(***************************************************************************)
RECURSIVE JoinFrom(_, _)
JoinFrom(p, i) ==
    IF i > Len(p) THEN ""
    ELSE IF i = Len(p) THEN p[i]
    ELSE p[i] \o "/" \o JoinFrom(p, i + 1)

\* The path as the C string it stands for.
PathStr(p) == JoinFrom(p, 1)

path_is_absolute(p) == Len(p) >= 2 /\ p[1] = ""

\* GNU basename(): what follows the last slash.
basename(p) == p[Len(p)]

\* path_simplify(p, false): repeated and trailing slashes go, dots stay.
path_simplify(p) ==
    IF path_is_absolute(p)
    THEN LET rest == SelectSeq(Tail(p), LAMBDA c : c # "")
         IN  IF rest = <<>> THEN <<"", "">> ELSE <<"">> \o rest
    ELSE LET rest == SelectSeq(p, LAMBDA c : c # "")
         IN  IF rest = <<>> THEN <<"">> ELSE rest

empty_or_root(p) == path_simplify(p) \in {<<"", "">>, <<"">>}

path_equal(a, b) == path_simplify(a) = path_simplify(b)

\* path_startswith(p, "/dev/") || path_startswith(p, "/sys/")
is_device_path(p) ==
    /\ path_is_absolute(p)
    /\ path_simplify(p)[2] \in {"dev", "sys"}

\* A tag (LABEL=, UUID=, ...) becomes the /dev/disk/by-... node, anything else is copied.
fstab_node_to_udev_node(what) ==
    IF what = <<"LABEL=root">> THEN <<"", "dev", "disk", "by-label", "root">>
    ELSE what

(***************************************************************************)
(* Unit names, escaping, option strings                                    *)
(***************************************************************************)
\* unit_name_escape() of one piece of a path: '-', '=' and the like become \xNN.
unit_name_escape(c) ==
    CASE c = "by-label" -> "by\\x2dlabel"
      [] c = "LABEL=root" -> "LABEL\\x3droot"
      [] OTHER -> c

RECURSIVE JoinDash(_, _)
JoinDash(p, i) ==
    IF i > Len(p) THEN ""
    ELSE IF i = Len(p) THEN unit_name_escape(p[i])
    ELSE unit_name_escape(p[i]) \o "-" \o JoinDash(p, i + 1)

path_is_normalized(p) == \A i \in 1..Len(p) : p[i] \notin {".", ".."}

\* unit_name_path_escape(): "/" gives "-", a path with a dot piece is refused,
\* otherwise the pieces are escaped and joined by '-'.
unit_name_path_escape(f) ==
    LET p == path_simplify(f)
    IN  IF empty_or_root(f) THEN [r |-> 0, s |-> "-"]
        ELSE IF ~path_is_normalized(p) THEN [r |-> -EINVAL, s |-> ""]
        ELSE [r |-> 0, s |-> JoinDash(SelectSeq(p, LAMBDA c : c # ""), 1)]

unit_name_from_path(path, suffix) ==
    LET e == unit_name_path_escape(path)
    IN  IF e.r < 0 THEN [r |-> e.r, name |-> ""]
        ELSE [r |-> 0, name |-> e.s \o suffix]

unit_name_from_path_instance(prefix, path, suffix) ==
    LET e == unit_name_path_escape(path)
    IN  IF e.r < 0 THEN [r |-> e.r, name |-> ""]
        ELSE [r |-> 0, name |-> prefix \o "@" \o e.s \o suffix]

\* cescape(): backslash-escapes quotes, backslashes and control characters
\* (piece by piece: a slash is left alone).
cescape_piece(c) == IF c = "my\"disk" THEN "my\\\"disk" ELSE c

cescape(p) == [i \in 1..Len(p) |-> cescape_piece(p[i])]

\* specifier_escape(): doubles every '%'.
specifier_escape_piece(c) == IF c = "100%" THEN "100%%" ELSE c

specifier_escape(p) == [i \in 1..Len(p) |-> specifier_escape_piece(p[i])]

\* An option string is the sequence of its comma-separated options, each a
\* name and a value; the value is the sequence of its characters.
RECURSIVE Chars(_, _)
Chars(v, i) == IF i > Len(v) THEN "" ELSE v[i] \o Chars(v, i + 1)

ValueStr(v) == Chars(v, 1)

\* fstab_filter_options(opts, names, NULL, &value, &filtered): whether one of
\* names occurs, the value of its last occurrence, and the other options.
fstab_filter_options(opts, names) ==
    LET hits == SelectSeq(opts, LAMBDA o : o.name \in names)
    IN  [r |-> IF hits = <<>> THEN 0 ELSE 1,
         value |-> IF hits = <<>> THEN <<>> ELSE hits[Len(hits)].value,
         filtered |-> SelectSeq(opts, LAMBDA o : o.name \notin names)]

fstab_test_option(opts, names) == fstab_filter_options(opts, names).r > 0

Digit == [c \in {"0", "1", "2", "3", "4", "5", "6", "7", "8", "9"} |->
             CASE c = "0" -> 0 [] c = "1" -> 1 [] c = "2" -> 2 [] c = "3" -> 3
               [] c = "4" -> 4 [] c = "5" -> 5 [] c = "6" -> 6 [] c = "7" -> 7
               [] c = "8" -> 8 [] c = "9" -> 9]

RECURSIVE Decimal(_, _)
Decimal(v, n) == IF n = 0 THEN 0 ELSE 10 * Decimal(v, n - 1) + Digit[v[n]]

\* parse_sec(): a number of seconds, or "infinity"; anything else is refused.
parse_sec(v) ==
    IF v = <<"i", "n", "f", "i", "n", "i", "t", "y">>
    THEN [r |-> 0, u |-> 0, infinity |-> TRUE]
    ELSE IF v # <<>> /\ \A i \in 1..Len(v) : v[i] \in DOMAIN Digit
         THEN [r |-> 0, u |-> Decimal(v, Len(v)) * 1000000, infinity |-> FALSE]
         ELSE [r |-> -EINVAL, u |-> 0, infinity |-> FALSE]

\* parse_sec_fix_0(): as parse_sec(), but 0 means no timeout at all.
parse_sec_fix_0(v) ==
    LET p == parse_sec(v)
    IN  IF p.r < 0 THEN p
        ELSE IF ~p.infinity /\ p.u = 0 THEN [p EXCEPT !.infinity = TRUE] ELSE p

(***************************************************************************)
(* System calls and stdio on the output directory                          *)
(***************************************************************************)
\* fopen(dest/name, "we"), without the x: creates the file or truncates the one
\* that is there.
fopen_we(name, io) ==
    IF name \notin DOMAIN files /\ io = "fopen"
    THEN [err |-> EACCES, files |-> files, hit |-> TRUE]
    ELSE [err |-> 0, files |-> [n \in DOMAIN files \cup {name} |->
                                   IF n = name THEN <<>> ELSE files[n]],
          hit |-> FALSE]

\* fopen(dest/name, "wxe"): O_CREAT|O_EXCL, an empty new file or EEXIST.
fopen_wxe(name, io) ==
    IF name \in DOMAIN files
    THEN [err |-> EEXIST, files |-> files, hit |-> FALSE]
    ELSE IF io = "fopen"
    THEN [err |-> EACCES, files |-> files, hit |-> TRUE]
    ELSE [err |-> 0, files |-> (name :> <<>>) @@ files, hit |-> FALSE]

\* Writing the stream's buffer out: all of it, or (disk full) none of it.
fflush(fs, name, buf, io) ==
    IF buf # <<>> /\ io = "flush"
    THEN [err |-> ENOSPC, files |-> fs, hit |-> TRUE]
    ELSE [err |-> 0, files |-> [fs EXCEPT ![name] = @ \o buf], hit |-> FALSE]

\* mkdir_parents(): the directory a link or drop-in goes to; its result is ignored.
mkdir_parents(d, io) ==
    IF d \notin dirs /\ io = "mkdir"
    THEN [dirs |-> dirs, hit |-> TRUE]
    ELSE [dirs |-> dirs \cup {d}, hit |-> FALSE]

\* a symlink() that finds the name taken as soon as the directory holds any link
symlink_dir_taken(from, d, name, ds, io) ==
    IF d \notin ds THEN [err |-> ENOENT, links |-> links, hit |-> FALSE]
    ELSE IF \E l \in links : l.dir = d
    THEN [err |-> EEXIST, links |-> links, hit |-> FALSE]
    ELSE IF io = "symlink" THEN [err |-> EROFS, links |-> links, hit |-> TRUE]
    ELSE [err |-> 0,
          links |-> links \cup {[dir |-> d, name |-> name, dest |-> from]},
          hit |-> FALSE]

\* symlink(from, d/name) with the directories ds in place.
symlink(from, d, name, ds, io) ==
    IF d \notin ds THEN [err |-> ENOENT, links |-> links, hit |-> FALSE]
    ELSE IF \E l \in links : l.dir = d /\ l.name = name
    THEN [err |-> EEXIST, links |-> links, hit |-> FALSE]
    ELSE IF io = "symlink" THEN [err |-> EROFS, links |-> links, hit |-> TRUE]
    ELSE [err |-> 0,
          links |-> links \cup {[dir |-> d, name |-> name, dest |-> from]},
          hit |-> FALSE]

Header(prog) == <<"# Automatically generated by " \o prog, "">>

(***************************************************************************)
(* Inputs                                                                  *)
(***************************************************************************)
Procs == {1, 2}
UnitNames == {"data.mount", "systemd-growfs@data.service"}
Sources == {NULL, "/etc/fstab"}
Whats == {<<"", "dev", "sda1">>, <<"", "dev", "..", "sdb">>, <<"LABEL=root">>, <<"tmpfs">>}
Wheres == {<<"", "">>, <<"", "sysroot">>, <<"", "data">>}
HookWheres == {<<"", "">>, <<"", "data">>}
FsTypes == {NULL, "", "auto", "ext4"}
\* fsck_exists(): the checker is there (1), is not (0), or the probe fails.
Probes == {1, 0, -EACCES}
LinkTargets == {SPECIAL_LOCAL_FS_TARGET, "data.mount"}
DepTypes == {"wants", "requires"}
Opts == { <<>>,
          <<[name |-> "x-systemd.device-timeout", value |-> <<"3", "0">>]>>,
          <<[name |-> "x-systemd.device-timeout", value |-> <<"a", "b", "c">>]>>,
          <<[name |-> "noauto", value |-> <<>>],
            [name |-> "comment=systemd.device-timeout", value |-> <<"0">>]>>,
          <<[name |-> "_netdev", value |-> <<>>],
            [name |-> "x-systemd.device-timeout", value |-> <<"a", "b", "c">>],
            [name |-> "x-systemd.device-timeout", value |-> <<"5">>]>> }
LinkSources == {SYSTEM_DATA_UNIT_PATH \o <<SPECIAL_FSCK_ROOT_SERVICE>>,
                <<SPECIAL_FSCK_ROOT_SERVICE>>}

NoCall == [op |-> "none", args |-> <<>>, ret |-> 0, io |-> "none", info |-> <<>>]

Init ==
    /\ files = <<>>
    /\ open = <<>>
    /\ unitf = <<>>
    /\ links = {}
    /\ dirs = {}
    /\ dropins = {}
    /\ last = NoCall
    /\ ncalls = 0
    /\ initrd \in BOOLEAN
    /\ pc = [p \in Procs |-> "idle"]
    /\ job = [p \in Procs |-> <<>>]
    /\ hnd = [p \in Procs |-> <<>>]
    /\ res = [p \in Procs |-> 0]

\* The caller is between two calls and may make one more.
Idle == last.op = "none" /\ ncalls < MaxCalls

\* A call of Spec returns: what it was, what it returned, what failed under it.
Return(op, args, ret, io, info) ==
    /\ last' = [op |-> op, args |-> args, ret |-> ret, io |-> io, info |-> info]
    /\ ncalls' = ncalls + 1
    /\ UNCHANGED <<initrd, pc, job, hnd, res>>

(***************************************************************************)
(* generator_open_unit_file                                                *)
(***************************************************************************)
\* The message logged when fopen() fails.
open_unit_file_log(source, errno) ==
    IF source # NULL /\ errno = EEXIST THEN "already exists, duplicate entry" ELSE "failed to create"

generator_open_unit_file(source, name, io) ==
    LET f == fopen_wxe(name, io)
    IN  /\ io = "none" \/ f.hit
        /\ files' = f.files
        /\ open' = IF f.err = 0
                   THEN (name :> Header(program_invocation_short_name)) @@ open
                   ELSE open
        /\ UNCHANGED <<unitf, links, dirs, dropins>>
        /\ Return("open_unit_file", [source |-> source, name |-> name],
                  IF f.err = 0 THEN 0 ELSE -f.err, io,
                  [log |-> IF f.err = 0 THEN "" ELSE open_unit_file_log(source, f.err),
                   file |-> IF f.err = 0 THEN name ELSE NULL])

\* The caller is done with a unit file it opened: fclose() writes the buffer out.
fclose(name, io) ==
    LET w == fflush(files, name, open[name], io)
    IN  /\ io = "none" \/ w.hit
        /\ files' = w.files
        /\ open' = [n \in DOMAIN open \ {name} |-> open[n]]
        /\ UNCHANGED <<unitf, links, dirs, dropins>>
        /\ Return("fclose", [name |-> name], IF w.err = 0 THEN 0 ELSE -w.err, io, <<>>)

(***************************************************************************)
(* generator_add_symlink                                                   *)
(***************************************************************************)
\* every failure of symlink() returned, EEXIST too
add_symlink_strict(errno) == IF errno # 0 THEN -errno ELSE 0

\* symlink() failed with errno (0: it did not): EEXIST is no error, every other is.
add_symlink_ret(errno) == IF errno # 0 /\ errno # EEXIST THEN -errno ELSE 0

\* the source taken verbatim, absolute or not
add_symlink_from_verbatim(src) == PathStr(src)

add_symlink_from(src) == IF path_is_absolute(src) THEN PathStr(src) ELSE "../" \o PathStr(src)

add_symlink_to(dst, dep_type, src) == [dir |-> dst \o "." \o dep_type, name |-> basename(src)]

\* What the call does to the directory and what it returns.
add_symlink(dst, dep_type, src, io) ==
    LET from == add_symlink_from(src)
        to == add_symlink_to(dst, dep_type, src)
        m == mkdir_parents(to.dir, io)
        s == symlink(from, to.dir, to.name, m.dirs, io)
    IN  [ret |-> add_symlink_ret(s.err), errno |-> s.err, links |-> s.links,
         dirs |-> m.dirs, hit |-> m.hit \/ s.hit]

generator_add_symlink(dst, dep_type, src, io) ==
    LET a == add_symlink(dst, dep_type, src, io)
    IN  /\ io = "none" \/ a.hit
        /\ links' = a.links
        /\ dirs' = a.dirs
        /\ UNCHANGED <<files, open, unitf, dropins>>
        /\ Return("add_symlink", [dst |-> dst, dep_type |-> dep_type, src |-> src],
                  a.ret, io, [errno |-> a.errno])

generator_enable_remount_fs_service(io) ==
    LET src == SYSTEM_DATA_UNIT_PATH \o <<SPECIAL_REMOUNT_FS_SERVICE>>
        a == add_symlink(SPECIAL_LOCAL_FS_TARGET, "wants", src, io)
    IN  /\ io = "none" \/ a.hit
        /\ links' = a.links
        /\ dirs' = a.dirs
        /\ UNCHANGED <<files, open, unitf, dropins>>
        /\ Return("enable_remount_fs_service", <<>>, a.ret, io, [errno |-> a.errno])

(***************************************************************************)
(* generator_write_fsck_deps                                               *)
(***************************************************************************)
SYSTEMD_FSCK_PATH == "/usr/lib/systemd/systemd-fsck"

fsck_sysroot_body(what, device) ==
    Header(program_invocation_short_name) \o
    << "[Unit]",
       "Description=File System Check on " \o PathStr(specifier_escape(what)),
       "Documentation=man:systemd-fsck-root.service(8)",
       "DefaultDependencies=no",
       "BindsTo=" \o device,
       "Conflicts=shutdown.target",
       "After=initrd-root-device.target local-fs-pre.target " \o device,
       "Before=shutdown.target",
       "",
       "[Service]",
       "Type=oneshot",
       "RemainAfterExit=yes",
       "ExecStart=" \o SYSTEMD_FSCK_PATH \o " " \o PathStr(cescape(specifier_escape(what))),
       "TimeoutSec=0" >>

\* What write_fsck_sysroot_service() does to the unit files and what it returns.
write_fsck_sysroot_service(what, io) ==
    LET device == unit_name_from_path(what, ".device")
        f == fopen_wxe(SPECIAL_FSCK_ROOT_SERVICE, io)
        w == fflush(f.files, SPECIAL_FSCK_ROOT_SERVICE, fsck_sysroot_body(what, device.name), io)
    IN  IF device.r < 0 THEN [ret |-> device.r, files |-> files, hit |-> FALSE]
        ELSE IF f.err # 0 THEN [ret |-> -f.err, files |-> f.files, hit |-> f.hit]
        ELSE IF w.err # 0 THEN [ret |-> -w.err, files |-> w.files, hit |-> w.hit]
        ELSE [ret |-> 0, files |-> w.files, hit |-> FALSE]

\* Whether fsck_exists() is asked at all.
fsck_deps_probes(what, fstype) ==
    /\ is_device_path(what)
    /\ fstype \notin {NULL, ""} /\ fstype # "auto"

\* a probe that fails taken for a checker that is not there
fsck_deps_skip_on_error(what, fstype, probe) ==
    \/ ~is_device_path(what)
    \/ fsck_deps_probes(what, fstype) /\ probe <= 0

\* The call returns 0 at once: not a device, or no checker for the type.
fsck_deps_skip(what, fstype, probe) ==
    \/ ~is_device_path(what)
    \/ fsck_deps_probes(what, fstype) /\ probe = 0

fsck_deps_is_root(where) == path_equal(where, <<"", "">>)

fsck_deps_lnk == [dir |-> SPECIAL_LOCAL_FS_TARGET \o ".wants", name |-> SPECIAL_FSCK_ROOT_SERVICE]

\* the link made as for a generated unit, one directory up
fsck_deps_lnk_from_relative == "../" \o SPECIAL_FSCK_ROOT_SERVICE

fsck_deps_lnk_from == PathStr(SYSTEM_DATA_UNIT_PATH \o <<SPECIAL_FSCK_ROOT_SERVICE>>)

\* symlink() failed with errno (0: it did not): every failure is returned.
fsck_deps_symlink_ret(errno) == IF errno # 0 THEN -errno ELSE 0

\* the Requires= line alone
fsck_deps_pair_requires_only(fsck) == <<"Requires=" \o fsck>>

fsck_deps_pair(fsck) == <<"Requires=" \o fsck, "After=" \o fsck>>

\* What the call does and returns once it did not skip.
fsck_deps(what, where, io) ==
    LET same == [ret |-> 0, files |-> files, f |-> unitf, links |-> links,
                 dirs |-> dirs, hit |-> FALSE, fsck |-> NULL]
    IN  IF fsck_deps_is_root(where)
        THEN LET m == mkdir_parents(fsck_deps_lnk.dir, io)
                 l == symlink(fsck_deps_lnk_from, fsck_deps_lnk.dir, fsck_deps_lnk.name,
                              m.dirs, io)
             IN  [same EXCEPT !.ret = fsck_deps_symlink_ret(l.err), !.links = l.links,
                              !.dirs = m.dirs, !.hit = m.hit \/ l.hit]
        ELSE IF initrd /\ path_equal(where, <<"", "sysroot">>)
        THEN LET w == write_fsck_sysroot_service(what, io)
             IN  IF w.ret < 0
                 THEN [same EXCEPT !.ret = w.ret, !.files = w.files, !.hit = w.hit]
                 ELSE [same EXCEPT !.files = w.files, !.fsck = SPECIAL_FSCK_ROOT_SERVICE,
                                   !.f = unitf \o fsck_deps_pair(SPECIAL_FSCK_ROOT_SERVICE)]
        ELSE LET u == unit_name_from_path_instance("systemd-fsck", what, ".service")
             IN  IF u.r < 0 THEN [same EXCEPT !.ret = u.r]
                 ELSE [same EXCEPT !.fsck = u.name,
                                   !.f = unitf \o fsck_deps_pair(u.name)]

\* f, the stream of the unit file the caller is writing, is unitf.
generator_write_fsck_deps(what, where, fstype, probe, io) ==
    LET skip == fsck_deps_skip(what, fstype, probe)
        d == fsck_deps(what, where, io)
    IN  /\ io = "none" \/ (~skip /\ d.hit)
        /\ files' = IF skip THEN files ELSE d.files
        /\ unitf' = IF skip THEN unitf ELSE d.f
        /\ links' = IF skip THEN links ELSE d.links
        /\ dirs' = IF skip THEN dirs ELSE d.dirs
        /\ UNCHANGED <<open, dropins>>
        /\ Return("write_fsck_deps",
                  [what |-> what, where |-> where, fstype |-> fstype, probe |-> probe],
                  IF skip THEN 0 ELSE d.ret, io,
                  [skipped |-> skip, fsck |-> IF skip THEN NULL ELSE d.fsck])

(***************************************************************************)
(* Drop-ins: write_drop_in_format() of dropin.c                            *)
(***************************************************************************)
\* <unit>.d/<level>-<name>.conf is created exclusively with the given text.
write_drop_in_format(unit, level, name, text, io) ==
    LET key == [unit |-> unit, level |-> level, name |-> name]
    IN  IF \E d \in dropins : d.key = key
        THEN [ret |-> -EEXIST, dropins |-> dropins, dirs |-> dirs \cup {unit \o ".d"},
              hit |-> FALSE]
        ELSE IF io = "dropin"
        THEN [ret |-> -ENOSPC, dropins |-> dropins, dirs |-> dirs, hit |-> TRUE]
        ELSE [ret |-> 0, dropins |-> dropins \cup {[key |-> key, text |-> text]},
              dirs |-> dirs \cup {unit \o ".d"}, hit |-> FALSE]

(***************************************************************************)
(* generator_write_timeouts, generator_write_device_deps,                  *)
(* generator_write_initrd_root_device_deps                                 *)
(***************************************************************************)
TimeoutOptions == {"comment=systemd.device-timeout", "x-systemd.device-timeout"}

\* the unit named after what as given, not after the node it resolves to
timeouts_unit_of_what(what) == unit_name_from_path(what, ".device")

\* The device whose unit gets the drop-in, as the rule derives its name from what.
timeouts_unit(what) == unit_name_from_path(fstab_node_to_udev_node(what), ".device")

timeouts_text(timeout) ==
    Header(program_invocation_short_name) \o
    <<"[Unit]", "JobRunningTimeoutSec=" \o ValueStr(timeout)>>

\* The request made to the drop-in writer.
timeouts_request(unit, timeout) ==
    [unit |-> unit, level |-> 50, name |-> "device-timeout", text |-> timeouts_text(timeout)]

\* the rule without its is_device_path() test
timeouts_stop_any_node(what, opts) ==
    LET o == fstab_filter_options(opts, TimeoutOptions)
    IN  IF o.r <= 0 THEN "absent"
        ELSE IF parse_sec_fix_0(o.value).r < 0 THEN "unparseable"
        ELSE ""

\* Why the rule writes nothing and returns at once, or "" when it goes on.
timeouts_stop(what, opts) ==
    LET o == fstab_filter_options(opts, TimeoutOptions)
    IN  IF o.r <= 0 THEN "absent"
        ELSE IF parse_sec_fix_0(o.value).r < 0 THEN "unparseable"
        ELSE IF ~is_device_path(fstab_node_to_udev_node(what)) THEN "not a device"
        ELSE ""

timeouts(what, opts, io) ==
    LET o == fstab_filter_options(opts, TimeoutOptions)
        stop == timeouts_stop(what, opts)
        unit == timeouts_unit(what)
        q == timeouts_request(unit.name, o.value)
        w == write_drop_in_format(q.unit, q.level, q.name, q.text, io)
        same == [ret |-> 0, dropins |-> dropins, dirs |-> dirs, hit |-> FALSE,
                 req |-> {}, wret |-> 0, filtered |-> o.filtered, stop |-> stop]
    IN  IF stop = "absent" THEN [same EXCEPT !.ret = o.r]
        ELSE IF stop # "" THEN same
        ELSE IF unit.r < 0 THEN [same EXCEPT !.ret = unit.r, !.stop = "no unit name"]
        ELSE [same EXCEPT !.ret = w.ret, !.dropins = w.dropins, !.dirs = w.dirs,
                          !.hit = w.hit, !.req = {q}, !.wret = w.ret]

generator_write_timeouts(what, where, opts, io) ==
    LET t == timeouts(what, opts, io)
    IN  /\ io = "none" \/ t.hit
        /\ dropins' = t.dropins
        /\ dirs' = t.dirs
        /\ UNCHANGED <<files, open, unitf, links>>
        /\ Return("write_timeouts", [what |-> what, where |-> where, opts |-> opts],
                  t.ret, io,
                  [req |-> t.req, wret |-> t.wret, filtered |-> t.filtered, stop |-> t.stop])

device_deps_text ==
    Header(program_invocation_short_name) \o
    <<"[Unit]",
      "After=" \o SPECIAL_NETWORK_ONLINE_TARGET \o " " \o SPECIAL_NETWORK_TARGET,
      "Wants=" \o SPECIAL_NETWORK_ONLINE_TARGET>>

device_deps(what, opts, io) ==
    LET node == fstab_node_to_udev_node(what)
        unit == unit_name_from_path(node, ".device")
        w == write_drop_in_format(unit.name, 50, "netdev-dependencies", device_deps_text, io)
        same == [ret |-> 0, dropins |-> dropins, dirs |-> dirs, hit |-> FALSE, req |-> {}]
    IN  IF ~fstab_test_option(opts, {"_netdev"}) THEN same
        ELSE IF ~is_device_path(node) THEN same
        ELSE IF unit.r < 0 THEN [same EXCEPT !.ret = unit.r]
        ELSE [same EXCEPT !.ret = w.ret, !.dropins = w.dropins, !.dirs = w.dirs,
                          !.hit = w.hit, !.req = {unit.name}]

generator_write_device_deps(what, where, opts, io) ==
    LET t == device_deps(what, opts, io)
    IN  /\ io = "none" \/ t.hit
        /\ dropins' = t.dropins
        /\ dirs' = t.dirs
        /\ UNCHANGED <<files, open, unitf, links>>
        /\ Return("write_device_deps", [what |-> what, where |-> where, opts |-> opts],
                  t.ret, io, [req |-> t.req])

initrd_root_device_deps_text(unit) ==
    Header(program_invocation_short_name) \o
    <<"[Unit]", "Requires=" \o unit, "After=" \o unit>>

generator_write_initrd_root_device_deps(what, io) ==
    LET unit == unit_name_from_path(what, ".device")
        w == write_drop_in_format(SPECIAL_INITRD_ROOT_DEVICE_TARGET, 50, "root-device",
                                  initrd_root_device_deps_text(unit.name), io)
    IN  /\ io = "none" \/ (unit.r >= 0 /\ w.hit)
        /\ dropins' = IF unit.r < 0 THEN dropins ELSE w.dropins
        /\ dirs' = IF unit.r < 0 THEN dirs ELSE w.dirs
        /\ UNCHANGED <<files, open, unitf, links>>
        /\ Return("write_initrd_root_device_deps", [what |-> what],
                  IF unit.r < 0 THEN unit.r ELSE w.ret, io, <<>>)

(***************************************************************************)
(* generator_hook_up_mkswap, generator_hook_up_mkfs, generator_hook_up_growfs *)
(***************************************************************************)
SYSTEMD_MAKEFS_PATH == "/usr/lib/systemd/systemd-makefs"
SYSTEMD_GROWFS_PATH == "/usr/lib/systemd/systemd-growfs"

mkswap_text(where_unit, escaped) ==
    Header(program_invocation_short_name) \o
    << "[Unit]",
       "Description=Make Swap on %f",
       "Documentation=man:systemd-mkswap@.service(8)",
       "DefaultDependencies=no",
       "BindsTo=%i.device",
       "Conflicts=shutdown.target",
       "After=%i.device",
       "Before=shutdown.target " \o where_unit,
       "",
       "[Service]",
       "Type=oneshot",
       "RemainAfterExit=yes",
       "ExecStart=" \o SYSTEMD_MAKEFS_PATH \o " swap " \o escaped,
       "TimeoutSec=0" >>

mkfs_text(where_unit, type, escaped) ==
    Header(program_invocation_short_name) \o
    << "[Unit]",
       "Description=Make File System on %f",
       "Documentation=man:systemd-makefs@.service(8)",
       "DefaultDependencies=no",
       "BindsTo=%i.device",
       "Conflicts=shutdown.target",
       "After=%i.device",
       "Before=shutdown.target systemd-fsck@%i.service " \o where_unit,
       "",
       "[Service]",
       "Type=oneshot",
       "RemainAfterExit=yes",
       "ExecStart=" \o SYSTEMD_MAKEFS_PATH \o " " \o type \o " " \o escaped,
       "TimeoutSec=0" >>

growfs_text(target, escaped) ==
    Header(program_invocation_short_name) \o
    << "[Unit]",
       "Description=Grow File System on %f",
       "Documentation=man:systemd-growfs@.service(8)",
       "DefaultDependencies=no",
       "BindsTo=%i.mount",
       "Conflicts=shutdown.target",
       "After=%i.mount",
       "Before=shutdown.target " \o target,
       "",
       "[Service]",
       "Type=oneshot",
       "RemainAfterExit=yes",
       "ExecStart=" \o SYSTEMD_GROWFS_PATH \o " " \o escaped,
       "TimeoutSec=0" >>

\* What every hook reports: the result, the directory after it, the names it derived.
HookSame == [ret |-> 0, files |-> files, links |-> links, dirs |-> dirs, hit |-> FALSE,
             unit |-> NULL, where_unit |-> NULL, step |-> "refused"]

\* every node taken for a device
hook_any_node(node) == FALSE

\* mkswap and mkfs: "Nothing to work on", the node is not a device path.
hook_not_a_device(node) == ~is_device_path(node)

mkswap(what, io) ==
    LET node == fstab_node_to_udev_node(what)
        unit == unit_name_from_path_instance("systemd-mkswap", node, ".service")
        where_unit == unit_name_from_path(what, ".swap")
        f == fopen_wxe(unit.name, io)
        w == fflush(f.files, unit.name, mkswap_text(where_unit.name, PathStr(cescape(node))), io)
        a == add_symlink(where_unit.name, "requires", <<unit.name>>, io)
    IN  IF hook_not_a_device(node) THEN [HookSame EXCEPT !.ret = -EINVAL]
        ELSE IF unit.r < 0 THEN [HookSame EXCEPT !.ret = unit.r, !.step = "name"]
        ELSE IF where_unit.r < 0 THEN [HookSame EXCEPT !.ret = where_unit.r, !.step = "name"]
        ELSE IF f.err # 0
        THEN [HookSame EXCEPT !.ret = -f.err, !.hit = f.hit, !.step = "fopen",
                              !.unit = unit.name, !.where_unit = where_unit.name]
        ELSE IF w.err # 0
        THEN [HookSame EXCEPT !.ret = -w.err, !.hit = w.hit, !.step = "flush", !.files = w.files,
                              !.unit = unit.name, !.where_unit = where_unit.name]
        ELSE [HookSame EXCEPT !.ret = a.ret, !.hit = a.hit, !.step = "symlink", !.files = w.files,
                              !.links = a.links, !.dirs = a.dirs,
                              !.unit = unit.name, !.where_unit = where_unit.name]

\* The filesystem type the mkfs hook refuses.
mkfs_type_refused(type) == type = NULL \/ type = "auto"

mkfs(what, where, type, io) ==
    LET node == fstab_node_to_udev_node(what)
        unit == unit_name_from_path_instance("systemd-makefs", node, ".service")
        where_unit == unit_name_from_path(where, ".mount")
        f == fopen_wxe(unit.name, io)
        w == fflush(f.files, unit.name,
                    mkfs_text(where_unit.name, type, PathStr(cescape(node))), io)
        a == add_symlink(where_unit.name, "requires", <<unit.name>>, io)
    IN  IF hook_not_a_device(node) THEN [HookSame EXCEPT !.ret = -EINVAL]
        ELSE IF mkfs_type_refused(type) THEN [HookSame EXCEPT !.ret = -EINVAL]
        ELSE IF unit.r < 0 THEN [HookSame EXCEPT !.ret = unit.r, !.step = "name"]
        ELSE IF where_unit.r < 0 THEN [HookSame EXCEPT !.ret = where_unit.r, !.step = "name"]
        ELSE IF f.err # 0
        THEN [HookSame EXCEPT !.ret = -f.err, !.hit = f.hit, !.step = "fopen",
                              !.unit = unit.name, !.where_unit = where_unit.name]
        ELSE IF w.err # 0
        THEN [HookSame EXCEPT !.ret = -w.err, !.hit = w.hit, !.step = "flush", !.files = w.files,
                              !.unit = unit.name, !.where_unit = where_unit.name]
        ELSE [HookSame EXCEPT !.ret = a.ret, !.hit = a.hit, !.step = "symlink", !.files = w.files,
                              !.links = a.links, !.dirs = a.dirs,
                              !.unit = unit.name, !.where_unit = where_unit.name]

\* growfs with the edge made first, before the unit file is opened
growfs_edge_first(where, target, io) ==
    LET unit == unit_name_from_path_instance("systemd-growfs", where, ".service")
        where_unit == unit_name_from_path(where, ".mount")
        f == fopen_wxe(unit.name, io)
        a == add_symlink(where_unit.name, "wants", <<unit.name>>, io)
        w == fflush(f.files, unit.name, growfs_text(target, PathStr(cescape(where))), io)
    IN  IF unit.r < 0 THEN [HookSame EXCEPT !.ret = unit.r, !.step = "name"]
        ELSE IF where_unit.r < 0 THEN [HookSame EXCEPT !.ret = where_unit.r, !.step = "name"]
        ELSE IF a.ret < 0
        THEN [HookSame EXCEPT !.ret = a.ret, !.hit = a.hit, !.step = "symlink",
                              !.unit = unit.name, !.where_unit = where_unit.name]
        ELSE IF f.err # 0
        THEN [HookSame EXCEPT !.ret = -f.err, !.hit = f.hit, !.step = "fopen",
                              !.links = a.links, !.dirs = a.dirs,
                              !.unit = unit.name, !.where_unit = where_unit.name]
        ELSE [HookSame EXCEPT !.ret = 0, !.hit = w.hit, !.step = "symlink",
                              !.files = w.files, !.links = a.links, !.dirs = a.dirs,
                              !.unit = unit.name, !.where_unit = where_unit.name]

\* growfs: the link is made with the text still in the stream's buffer; the stream is
\* closed on the way out (_cleanup_fclose_) and what fclose() reports is dropped.
growfs(where, target, io) ==
    LET unit == unit_name_from_path_instance("systemd-growfs", where, ".service")
        where_unit == unit_name_from_path(where, ".mount")
        f == fopen_wxe(unit.name, io)
        a == add_symlink(where_unit.name, "wants", <<unit.name>>, io)
        w == fflush(f.files, unit.name, growfs_text(target, PathStr(cescape(where))), io)
    IN  IF unit.r < 0 THEN [HookSame EXCEPT !.ret = unit.r, !.step = "name"]
        ELSE IF where_unit.r < 0 THEN [HookSame EXCEPT !.ret = where_unit.r, !.step = "name"]
        ELSE IF f.err # 0
        THEN [HookSame EXCEPT !.ret = -f.err, !.hit = f.hit, !.step = "fopen",
                              !.unit = unit.name, !.where_unit = where_unit.name]
        ELSE [HookSame EXCEPT !.ret = a.ret, !.hit = a.hit \/ w.hit, !.step = "symlink",
                              !.files = w.files, !.links = a.links, !.dirs = a.dirs,
                              !.unit = unit.name, !.where_unit = where_unit.name]

\* A hook's outcome becomes the state after the call.
Hook(op, args, h, io) ==
    /\ io = "none" \/ h.hit
    /\ files' = h.files
    /\ links' = h.links
    /\ dirs' = h.dirs
    /\ UNCHANGED <<open, unitf, dropins>>
    /\ Return(op, args, h.ret, io,
              [unit |-> h.unit, where_unit |-> h.where_unit, step |-> h.step])

generator_hook_up_mkswap(what, io) ==
    Hook("hook_up_mkswap", [what |-> what], mkswap(what, io), io)

generator_hook_up_mkfs(what, where, type, io) ==
    Hook("hook_up_mkfs", [what |-> what, where |-> where, type |-> type],
         mkfs(what, where, type, io), io)

generator_hook_up_growfs(where, target, io) ==
    Hook("hook_up_growfs", [where |-> where, target |-> target],
         growfs(where, target, io), io)

(***************************************************************************)
(* Two generators on one output directory: generator_open_unit_file and    *)
(* generator_add_symlink one system call at a time.  No call fails for a   *)
(* reason of the environment here.                                         *)
(***************************************************************************)
ProgName(p) == IF p = 1 THEN "systemd-fstab-generator" ELSE "systemd-gpt-auto-generator"

RaceJobs ==
    {[kind |-> "unit", name |-> n] : n \in UnitNames} \cup
    {[kind |-> "edge", dst |-> d, dep_type |-> t, src |-> x] :
        d \in LinkTargets, t \in DepTypes, x \in LinkSources}

InitRace ==
    /\ files = <<>>
    /\ open = <<>>
    /\ unitf = <<>>
    /\ links = {}
    /\ dirs = {}
    /\ dropins = {}
    /\ last = NoCall
    /\ ncalls = 0
    /\ initrd = FALSE
    /\ pc = [p \in Procs |-> "idle"]
    /\ job = [p \in Procs |-> <<>>]
    /\ hnd = [p \in Procs |-> <<>>]
    /\ res = [p \in Procs |-> 0]

RaceFrame == UNCHANGED <<open, unitf, dropins, last, ncalls, initrd>>

\* The process is called to make a unit file or an edge.
race_call(p, j) ==
    /\ pc[p] = "idle"
    /\ job' = [job EXCEPT ![p] = j]
    /\ pc' = [pc EXCEPT ![p] = IF j.kind = "unit" THEN "fopen" ELSE "mkdir"]
    /\ UNCHANGED <<files, links, dirs, hnd, res>>
    /\ RaceFrame

\* generator_open_unit_file: f = fopen(unit, "wxe"), and the return if it failed
open_unit_file_fopen(p) ==
    LET f == fopen_wxe(job[p].name, "none")
    IN  /\ pc[p] = "fopen"
        /\ files' = f.files
        /\ hnd' = [hnd EXCEPT ![p] = IF f.err = 0 THEN <<"">> ELSE <<>>]
        /\ res' = [res EXCEPT ![p] = IF f.err = 0 THEN 0 ELSE -f.err]
        /\ pc' = [pc EXCEPT ![p] = IF f.err = 0 THEN "fprintf" ELSE "failed"]
        /\ UNCHANGED <<links, dirs, job>>
        /\ RaceFrame

\* generator_open_unit_file: fprintf(f, header), *file = f, return 0
open_unit_file_fprintf(p) ==
    /\ pc[p] = "fprintf"
    /\ hnd' = [hnd EXCEPT ![p] = Header(ProgName(p))]
    /\ pc' = [pc EXCEPT ![p] = "opened"]
    /\ UNCHANGED <<files, links, dirs, job, res>>
    /\ RaceFrame

\* The caller closes the stream it was given: the buffer goes to the file.
race_fclose(p) ==
    /\ pc[p] = "opened"
    /\ files' = fflush(files, job[p].name, hnd[p], "none").files
    /\ hnd' = [hnd EXCEPT ![p] = <<>>]
    /\ pc' = [pc EXCEPT ![p] = "closed"]
    /\ UNCHANGED <<links, dirs, job, res>>
    /\ RaceFrame

\* generator_add_symlink: mkdir_parents_label(to, 0755)
add_symlink_mkdir(p) ==
    /\ pc[p] = "mkdir"
    /\ dirs' = mkdir_parents(add_symlink_to(job[p].dst, job[p].dep_type, job[p].src).dir,
                             "none").dirs
    /\ pc' = [pc EXCEPT ![p] = "symlink"]
    /\ UNCHANGED <<files, links, job, hnd, res>>
    /\ RaceFrame

\* generator_add_symlink: symlink(from, to) and the return
add_symlink_symlink(p) ==
    LET to == add_symlink_to(job[p].dst, job[p].dep_type, job[p].src)
        l == symlink(add_symlink_from(job[p].src), to.dir, to.name, dirs, "none")
    IN  /\ pc[p] = "symlink"
        /\ links' = l.links
        /\ res' = [res EXCEPT ![p] = add_symlink_ret(l.err)]
        /\ pc' = [pc EXCEPT ![p] = IF add_symlink_ret(l.err) = 0 THEN "linked" ELSE "failed"]
        /\ UNCHANGED <<files, dirs, job, hnd>>
        /\ RaceFrame

NextRace ==
    \/ \E p \in Procs, j \in RaceJobs : race_call(p, j)
    \/ \E p \in Procs : open_unit_file_fopen(p)
    \/ \E p \in Procs : open_unit_file_fprintf(p)
    \/ \E p \in Procs : race_fclose(p)
    \/ \E p \in Procs : add_symlink_mkdir(p)
    \/ \E p \in Procs : add_symlink_symlink(p)

SpecRace == InitRace /\ [][NextRace]_vars

\* The caller has taken the call's result and goes on.
caller_continues ==
    /\ last.op # "none"
    /\ last' = NoCall
    /\ UNCHANGED <<fsvars, ncalls, initrd, racevars>>

Next ==
    \/ caller_continues
    \/ Idle /\ \E source \in Sources, name \in UnitNames, io \in {"none", "fopen"} :
          generator_open_unit_file(source, name, io)
    \/ Idle /\ \E name \in DOMAIN open, io \in {"none", "flush"} : fclose(name, io)
    \/ Idle /\ \E dst \in LinkTargets, dep_type \in DepTypes, src \in LinkSources,
                  io \in {"none", "mkdir", "symlink"} :
          generator_add_symlink(dst, dep_type, src, io)
    \/ Idle /\ \E io \in {"none", "mkdir", "symlink"} : generator_enable_remount_fs_service(io)
    \/ Idle /\ \E what \in Whats \ {<<"LABEL=root">>}, fstype \in FsTypes :
          \E probe \in (IF fsck_deps_probes(what, fstype) THEN Probes ELSE {1}) :
             \E where \in Wheres, io \in HookFaults :
                generator_write_fsck_deps(what, where, fstype, probe, io)
    \/ Idle /\ \E what \in Whats, opts \in Opts, io \in {"none", "dropin"} :
          generator_write_timeouts(what, <<"", "data">>, opts, io)
    \/ Idle /\ \E what \in Whats, opts \in {o \in Opts : Len(o) # 1},
                  io \in {"none", "dropin"} :
          generator_write_device_deps(what, <<"", "data">>, opts, io)
    \/ Idle /\ \E what \in Whats, io \in {"none", "dropin"} :
          generator_write_initrd_root_device_deps(what, io)
    \/ Idle /\ \E what \in Whats, io \in HookFaults : generator_hook_up_mkswap(what, io)
    \/ Idle /\ \E what \in Whats \ {<<"LABEL=root">>}, where \in HookWheres, type \in FsTypes,
                  io \in HookFaults :
          generator_hook_up_mkfs(what, where, type, io)
    \/ Idle /\ \E where \in HookWheres, io \in HookFaults :
          generator_hook_up_growfs(where, SPECIAL_LOCAL_FS_TARGET, io)

Spec == Init /\ [][Next]_vars

(***************************************************************************)
(* Properties                                                              *)
(***************************************************************************)
Root == <<"", "">>
DirOf(l) == {k \in links : k.dir = l.dir /\ k.name = l.name}
OutputDirUnchanged ==
    /\ files' = files /\ links' = links /\ dirs' = dirs /\ dropins' = dropins

\* C1: generator_open_unit_file for a name that is already a file of the output
\* directory returns -EEXIST, hands out no stream, and leaves every file, the
\* existing one included, with the content it had.
C1_OpenExistingFails ==
    [][ (last'.op = "open_unit_file" /\ last'.args.name \in DOMAIN files)
        => /\ last'.ret = -EEXIST
           /\ last'.info.file = NULL
           /\ files' = files
           /\ open' = open ]_vars

C1_Witness ==
    /\ last.op = "open_unit_file"
    /\ last.ret = -EEXIST
    /\ last.args.name \in DOMAIN files
    /\ Len(files[last.args.name]) > 2

\* C2: without a failure of the environment, generator_add_symlink returns 0 and
\* leaves exactly one link of the source's base name in <dst>.<dep_type>/; called
\* when that link is already there (the second call of two) it returns 0 again
\* and leaves every link as it was.
C2_AddSymlinkIdempotent ==
    [][ (last'.op = "add_symlink" /\ last'.io = "none")
        => LET to == [dir |-> last'.args.dst \o "." \o last'.args.dep_type,
                      name |-> basename(last'.args.src)]
           IN  /\ last'.ret = 0
               /\ Cardinality({l \in links' : l.dir = to.dir /\ l.name = to.name}) = 1
               /\ ((\E l \in links : l.dir = to.dir /\ l.name = to.name) => links' = links) ]_vars

C2_Witness ==
    /\ last.op = "add_symlink"
    /\ last.io = "none"
    /\ last.info.errno = EEXIST
    /\ last.ret = 0
    /\ \E l \in links :
          /\ l.dir = last.args.dst \o "." \o last.args.dep_type
          /\ l.name = basename(last.args.src)
          /\ l.dest = add_symlink_from(last.args.src)
          /\ Cardinality(DirOf(l)) = 1

\* C3: two processes making the same unit file: once both are past fopen(), one
\* has 0 and the other -EEXIST, and the file holds nothing or what the winner
\* wrote.  Two processes making the same edge: once both are past symlink(),
\* both have 0 and the directory holds exactly one link of that name.
RaceUnitPast(p) == pc[p] \in {"fprintf", "opened", "closed", "failed"} /\ job[p].kind = "unit"
RaceEdgePast(p) == pc[p] \in {"linked", "failed"} /\ job[p].kind = "edge"

C3_RaceSameArtifact ==
    \A p \in Procs : \A q \in Procs \ {p} :
       /\ (RaceUnitPast(p) /\ RaceUnitPast(q) /\ job[p] = job[q])
          => /\ {res[p], res[q]} = {0, -EEXIST}
             /\ (res[p] = 0 => files[job[p].name] \in {<<>>, Header(ProgName(p))})
       /\ (RaceEdgePast(p) /\ RaceEdgePast(q) /\ job[p] = job[q])
          => /\ res[p] = 0 /\ res[q] = 0
             /\ Cardinality({l \in links :
                   /\ l.dir = job[p].dst \o "." \o job[p].dep_type
                   /\ l.name = basename(job[p].src)}) = 1

C3_Witness ==
    \E p \in Procs : \E q \in Procs \ {p} :
       /\ pc[p] = "closed" /\ pc[q] = "failed"
       /\ job[p].kind = "unit" /\ job[q] = job[p]
       /\ res[q] = -EEXIST
       /\ files[job[p].name] = Header(ProgName(p))

C3_WitnessEdge ==
    \E p \in Procs : \E q \in Procs \ {p} :
       /\ pc[p] = "linked" /\ pc[q] = "linked"
       /\ job[p].kind = "edge" /\ job[q] = job[p]

\* C4 as claimed: with no failure of the environment, a call for mount point /
\* leaves the link local-fs.target.wants/systemd-fsck-root.service, whatever the
\* device path and the type.
C4_RootAlwaysLinked ==
    (last.op = "write_fsck_deps" /\ last.io = "none" /\ path_equal(last.args.where, Root))
    => \E l \in links : l.dir = "local-fs.target.wants" /\ l.name = "systemd-fsck-root.service"

\* C4 as amended: a call for mount point / on a device path, the type's checker
\* not found absent, that returns 0 leaves the link
\* local-fs.target.wants/systemd-fsck-root.service to the unit in the system
\* unit directory.
C4_RootLinkedForDevice ==
    ( /\ last.op = "write_fsck_deps"
      /\ path_equal(last.args.where, Root)
      /\ is_device_path(last.args.what)
      /\ ~(last.args.fstype \notin {NULL, "", "auto"} /\ last.args.probe = 0)
      /\ last.ret = 0 )
    => [dir |-> "local-fs.target.wants", name |-> "systemd-fsck-root.service",
        dest |-> "/usr/lib/systemd/system/systemd-fsck-root.service"] \in links

C4_Witness ==
    /\ last.op = "write_fsck_deps"
    /\ path_equal(last.args.where, Root)
    /\ is_device_path(last.args.what)
    /\ last.args.fstype = "ext4" /\ last.args.probe = -EACCES
    /\ last.ret = 0
    /\ \E l \in links : l.dir = "local-fs.target.wants" /\ l.name = "systemd-fsck-root.service"

\* C5 as claimed: generator_hook_up_mkfs with type "auto", "" or none returns
\* -EINVAL and leaves the output directory as it was.
C5_MkfsNoTypeRefused ==
    [][ (last'.op = "hook_up_mkfs" /\ last'.io = "none"
           /\ last'.args.type \in {"auto", "", NULL})
        => (last'.ret = -EINVAL /\ OutputDirUnchanged) ]_vars

\* C6 as claimed: a rule that writes a helper unit file and whose write of the
\* unit's text fails returns a failure.
C6_FlushFailureReported ==
    ( /\ last.op \in {"hook_up_mkswap", "hook_up_mkfs", "hook_up_growfs", "write_fsck_deps"}
      /\ last.io = "flush" )
    => last.ret < 0

\* C7 as claimed: a rule whose edge is already there, same link and same
\* destination, returns 0 and leaves the output directory as it was.
C7_RuleEdgeTolerant ==
    [][ ( \/ /\ last'.op = "write_fsck_deps"
             /\ ~last'.info.skipped
             /\ path_equal(last'.args.where, Root)
             /\ [dir |-> "local-fs.target.wants", name |-> "systemd-fsck-root.service",
                 dest |-> "/usr/lib/systemd/system/systemd-fsck-root.service"] \in links
          \/ /\ last'.op = "enable_remount_fs_service"
             /\ [dir |-> "local-fs.target.wants", name |-> "systemd-remount-fs.service",
                 dest |-> "/usr/lib/systemd/system/systemd-remount-fs.service"] \in links )
        => (last'.ret = 0 /\ OutputDirUnchanged) ]_vars

\* C8 as claimed: generator_add_symlink finding its link name taken by a link to
\* another destination returns a failure.
C8_OtherDestinationReported ==
    [][ ( /\ last'.op = "add_symlink"
          /\ \E l \in links :
                /\ l.dir = last'.args.dst \o "." \o last'.args.dep_type
                /\ l.name = basename(last'.args.src)
                /\ l.dest # add_symlink_from(last'.args.src) )
        => last'.ret < 0 ]_vars

\* C9: generator_write_timeouts with no device-timeout option, with one whose
\* value parse_sec() refuses, or for a node that is no device path returns 0 and
\* leaves the output directory as it was.
C9_TimeoutsDegrade ==
    [][ ( /\ last'.op = "write_timeouts"
          /\ LET o == fstab_filter_options(last'.args.opts, TimeoutOptions)
             IN  \/ o.r = 0
                 \/ parse_sec_fix_0(o.value).r < 0
                 \/ ~is_device_path(fstab_node_to_udev_node(last'.args.what)) )
        => (last'.ret = 0 /\ last'.info.req = {} /\ OutputDirUnchanged) ]_vars

C9_Witness ==
    /\ last.op = "write_timeouts"
    /\ last.args.what = <<"", "dev", "sda1">>
    /\ last.info.stop = "unparseable"
    /\ last.ret = 0
    /\ dropins = {}

\* The option value and the node of a write_timeouts call that goes on to the drop-in.
TimeoutsGoesOn ==
    /\ last.op = "write_timeouts"
    /\ fstab_filter_options(last.args.opts, TimeoutOptions).r > 0
    /\ parse_sec_fix_0(fstab_filter_options(last.args.opts, TimeoutOptions).value).r >= 0
    /\ is_device_path(fstab_node_to_udev_node(last.args.what))

TimeoutsOneRequest(device) ==
    /\ last.info.req =
          {[unit |-> device, level |-> 50, name |-> "device-timeout",
            text |-> <<"# Automatically generated by systemd-fstab-generator", "", "[Unit]",
                       "JobRunningTimeoutSec=" \o
                          ValueStr(fstab_filter_options(last.args.opts, TimeoutOptions).value)>>]}
    /\ last.ret = last.info.wret

\* C10 as claimed: with a parseable device-timeout and a node that is a device
\* path, one drop-in is asked for, on the node's device unit, level 50, name
\* device-timeout, setting JobRunningTimeoutSec to the option's value, and the
\* call returns what the drop-in writer returned.
C10_TimeoutsDropIn ==
    TimeoutsGoesOn
    => TimeoutsOneRequest(unit_name_from_path(fstab_node_to_udev_node(last.args.what),
                                              ".device").name)

\* C10 as amended: the same, for a node from which unit_name_from_path() makes a
\* unit name.
C10_TimeoutsDropInNamed ==
    ( /\ TimeoutsGoesOn
      /\ unit_name_from_path(fstab_node_to_udev_node(last.args.what), ".device").r >= 0 )
    => TimeoutsOneRequest(unit_name_from_path(fstab_node_to_udev_node(last.args.what),
                                              ".device").name)

C10_Witness ==
    /\ TimeoutsGoesOn
    /\ last.args.what = <<"LABEL=root">>
    /\ last.ret = 0
    /\ \E d \in dropins :
          /\ d.key = [unit |-> "dev-disk-by\\x2dlabel-root.device", level |-> 50,
                      name |-> "device-timeout"]
          /\ d.text[4] = "JobRunningTimeoutSec=30"

\* C11: no step takes anything out of the output directory: every unit file stays,
\* with the content it had (the caller's fclose() only adds the buffered text after
\* it), and every link, directory and drop-in stays as it was, whether the call
\* succeeds or fails.
C11_DirOnlyGrows ==
    [][ /\ \A n \in DOMAIN files :
              /\ n \in DOMAIN files'
              /\ Len(files'[n]) >= Len(files[n])
              /\ SubSeq(files'[n], 1, Len(files[n])) = files[n]
              /\ (last'.op # "fclose" => files'[n] = files[n])
        /\ links \subseteq links'
        /\ dirs \subseteq dirs'
        /\ dropins \subseteq dropins' ]_vars

C11_Witness ==
    /\ last.op = "hook_up_mkfs"
    /\ last.ret < 0
    /\ last.info.step = "symlink"
    /\ Len(files[last.info.unit]) > 2
    /\ Cardinality(DOMAIN files) >= 2
    /\ links # {}

\* The edge <consumer>.<dep_type>/<helper>, a relative link to the helper unit.
HookEdge(consumer, dep_type, helper) ==
    [dir |-> consumer \o "." \o dep_type, name |-> helper, dest |-> "../" \o helper]

\* C12 as claimed: a hook that returns 0 leaves its edge, a relative link to the
\* helper unit: mkswap <what>.swap.requires/systemd-mkswap@<node>.service, mkfs
\* <where>.mount.requires/systemd-makefs@<node>.service, growfs
\* <where>.mount.wants/systemd-growfs@<where>.service, and the growfs unit's
\* ExecStart line carries the escaped mount point.
C12_HookEdgeKinds ==
    /\ (last.op = "hook_up_mkswap" /\ last.ret = 0)
       => HookEdge(unit_name_from_path(last.args.what, ".swap").name, "requires",
                   unit_name_from_path_instance("systemd-mkswap",
                       fstab_node_to_udev_node(last.args.what), ".service").name) \in links
    /\ (last.op = "hook_up_mkfs" /\ last.ret = 0)
       => HookEdge(unit_name_from_path(last.args.where, ".mount").name, "requires",
                   unit_name_from_path_instance("systemd-makefs",
                       fstab_node_to_udev_node(last.args.what), ".service").name) \in links
    /\ (last.op = "hook_up_growfs" /\ last.ret = 0)
       => LET helper == unit_name_from_path_instance("systemd-growfs", last.args.where,
                                                     ".service").name
          IN  /\ HookEdge(unit_name_from_path(last.args.where, ".mount").name, "wants",
                          helper) \in links
              /\ helper \in DOMAIN files
              /\ \E i \in 1..Len(files[helper]) :
                    files[helper][i] = "ExecStart=/usr/lib/systemd/systemd-growfs "
                                          \o PathStr(cescape(last.args.where))

\* C13: the only link generator_add_symlink makes is <dst>.<dep_type>/<base name of
\* src>, pointing to src itself when src is absolute and to ../<src> otherwise; a
\* call that returns 0 with that name free before it has made this link.
C13_AddSymlinkPlacement ==
    [][ last'.op = "add_symlink"
        => LET src == last'.args.src
               lnk == [dir |-> last'.args.dst \o "." \o last'.args.dep_type,
                       name |-> src[Len(src)],
                       dest |-> IF src[1] = "" /\ Len(src) >= 2 THEN PathStr(src)
                                ELSE "../" \o PathStr(src)]
           IN  /\ links' \in {links, links \cup {lnk}}
               /\ ( ( /\ last'.ret = 0
                      /\ ~\E l \in links : l.dir = lnk.dir /\ l.name = lnk.name )
                    => lnk \in links' ) ]_vars

C13_Witness ==
    /\ last.op = "add_symlink"
    /\ last.ret = 0
    /\ last.info.errno = 0
    /\ last.args.src = <<"systemd-fsck-root.service">>
    /\ last.args.dep_type = "requires"
    /\ [dir |-> last.args.dst \o ".requires", name |-> "systemd-fsck-root.service",
        dest |-> "../systemd-fsck-root.service"] \in links
    /\ \E l \in links : l.dest = "/usr/lib/systemd/system/systemd-fsck-root.service"

\* C14: generator_hook_up_mkswap and generator_hook_up_mkfs for a node that is not
\* a device path return -EINVAL and leave the output directory as it was.
C14_HooksRefuseNonDevice ==
    [][ ( /\ last'.op \in {"hook_up_mkswap", "hook_up_mkfs"}
          /\ ~is_device_path(fstab_node_to_udev_node(last'.args.what)) )
        => (last'.ret = -EINVAL /\ OutputDirUnchanged) ]_vars

C14_Witness ==
    /\ last.op = "hook_up_mkfs"
    /\ last.args.what = <<"tmpfs">>
    /\ last.args.type = "ext4"
    /\ last.ret = -EINVAL
    /\ ncalls = 2
    /\ files # <<>>

\* The rules applied to a mount or swap record.
RuleOps == {"write_fsck_deps", "write_timeouts", "write_device_deps",
            "write_initrd_root_device_deps",
            "hook_up_mkswap", "hook_up_mkfs", "hook_up_growfs"}

\* What the rule call c returns on an output directory nothing was written to.
RetOnEmptyDir(c) ==
    LET node == fstab_node_to_udev_node(c.args.what)
        device == unit_name_from_path(node, ".device").r
    IN  CASE c.op = "write_fsck_deps" ->
               IF \/ ~is_device_path(c.args.what)
                  \/ c.args.fstype \notin {NULL, "", "auto"} /\ c.args.probe = 0
               THEN 0
               ELSE IF path_equal(c.args.where, Root) THEN 0
               ELSE IF initrd /\ path_equal(c.args.where, <<"", "sysroot">>)
               THEN unit_name_from_path(c.args.what, ".device").r
               ELSE unit_name_from_path_instance("systemd-fsck", c.args.what, ".service").r
          [] c.op = "write_timeouts" ->
               IF \/ fstab_filter_options(c.args.opts, TimeoutOptions).r = 0
                  \/ parse_sec_fix_0(fstab_filter_options(c.args.opts, TimeoutOptions).value).r < 0
                  \/ ~is_device_path(node)
               THEN 0 ELSE device
          [] c.op = "write_device_deps" ->
               IF ~fstab_test_option(c.args.opts, {"_netdev"}) \/ ~is_device_path(node)
               THEN 0 ELSE device
          [] c.op = "write_initrd_root_device_deps" ->
               unit_name_from_path(c.args.what, ".device").r
          [] c.op = "hook_up_mkswap" ->
               IF ~is_device_path(node) THEN -EINVAL
               ELSE IF unit_name_from_path_instance("systemd-mkswap", node, ".service").r < 0
               THEN unit_name_from_path_instance("systemd-mkswap", node, ".service").r
               ELSE unit_name_from_path(c.args.what, ".swap").r
          [] c.op = "hook_up_mkfs" ->
               IF ~is_device_path(node) THEN -EINVAL
               ELSE IF c.args.type \in {NULL, "auto"} THEN -EINVAL
               ELSE IF unit_name_from_path_instance("systemd-makefs", node, ".service").r < 0
               THEN unit_name_from_path_instance("systemd-makefs", node, ".service").r
               ELSE unit_name_from_path(c.args.where, ".mount").r
          [] c.op = "hook_up_growfs" ->
               unit_name_from_path(c.args.where, ".mount").r

\* The names the rule call c creates exclusively: unit files, drop-ins, and the
\* link the check rule makes for the root mount.
RecordNames(c) ==
    LET none == [files |-> {}, dropins |-> {}, links |-> {}]
        node == fstab_node_to_udev_node(c.args.what)
        device == unit_name_from_path(node, ".device").name
    IN  CASE c.op = "write_fsck_deps" ->
               IF path_equal(c.args.where, Root)
               THEN [none EXCEPT !.links = {[dir |-> "local-fs.target.wants",
                                             name |-> "systemd-fsck-root.service"]}]
               ELSE IF initrd /\ path_equal(c.args.where, <<"", "sysroot">>)
               THEN [none EXCEPT !.files = {"systemd-fsck-root.service"}]
               ELSE none
          [] c.op = "write_timeouts" ->
               [none EXCEPT !.dropins = {[unit |-> device, level |-> 50,
                                          name |-> "device-timeout"]}]
          [] c.op = "write_device_deps" ->
               [none EXCEPT !.dropins = {[unit |-> device, level |-> 50,
                                          name |-> "netdev-dependencies"]}]
          [] c.op = "write_initrd_root_device_deps" ->
               [none EXCEPT !.dropins = {[unit |-> "initrd-root-device.target", level |-> 50,
                                          name |-> "root-device"]}]
          [] c.op = "hook_up_mkswap" ->
               [none EXCEPT !.files =
                   {unit_name_from_path_instance("systemd-mkswap", node, ".service").name}]
          [] c.op = "hook_up_mkfs" ->
               [none EXCEPT !.files =
                   {unit_name_from_path_instance("systemd-makefs", node, ".service").name}]
          [] c.op = "hook_up_growfs" ->
               [none EXCEPT !.files =
                   {unit_name_from_path_instance("systemd-growfs", c.args.where,
                                                 ".service").name}]

\* None of the names of c is taken in the output directory.
NamesFree(c) ==
    /\ RecordNames(c).files \cap DOMAIN files = {}
    /\ ~\E d \in dropins : d.key \in RecordNames(c).dropins
    /\ ~\E l \in links : [dir |-> l.dir, name |-> l.name] \in RecordNames(c).links

C16_HookEdgeLast ==
    [][ last'.op \in {"hook_up_mkswap", "hook_up_mkfs", "hook_up_growfs"}
        => /\ (links' # links
                 => /\ RecordNames(last').files \cap DOMAIN files = {}
                    /\ RecordNames(last').files \subseteq DOMAIN files')
           /\ ((last'.ret < 0 /\ DOMAIN files' = DOMAIN files)
                 => (links' = links /\ dirs' = dirs)) ]_vars

C16_Witness ==
    /\ last.op = "hook_up_mkfs"
    /\ last.ret = -EEXIST
    /\ last.info.step = "fopen"
    /\ Cardinality(links) = 1
    /\ \E l \in links : l.name = last.info.unit /\ l.dir = last.info.where_unit \o ".requires"

\* A check rule call for a device path and a mount point other than /, that does
\* not skip for want of a checker.
FsckNonRoot(c) ==
    /\ c.op = "write_fsck_deps"
    /\ is_device_path(c.args.what)
    /\ ~(c.args.fstype \notin {NULL, "", "auto"} /\ c.args.probe = 0)
    /\ ~path_equal(c.args.where, Root)

FsckSysroot(c) == initrd /\ path_equal(c.args.where, <<"", "sysroot">>)

\* The call appended Requires= and After= of the unit to the caller's unit body.
FsckPairAppended(unit) == unitf' = unitf \o <<"Requires=" \o unit, "After=" \o unit>>

\* In the initrd for /sysroot: a call that succeeds has created
\* systemd-fsck-root.service anew and appended its pair; one that fails appended
\* nothing.  No link is made either way.
FsckSysrootPair ==
    /\ links' = links
    /\ IF last'.ret = 0
       THEN /\ "systemd-fsck-root.service" \notin DOMAIN files
            /\ "systemd-fsck-root.service" \in DOMAIN files'
            /\ Len(files'["systemd-fsck-root.service"]) > 2
            /\ FsckPairAppended("systemd-fsck-root.service")
       ELSE unitf' = unitf

\* C17 as claimed: outside the sysroot case the call returns 0, appends the pair of
\* systemd-fsck@<escaped device>.service and creates neither a file nor a link.
C17_FsckPair ==
    [][ FsckNonRoot(last')
        => IF FsckSysroot(last') THEN FsckSysrootPair
           ELSE /\ last'.ret = 0
                /\ FsckPairAppended(unit_name_from_path_instance("systemd-fsck",
                                        last'.args.what, ".service").name)
                /\ files' = files /\ links' = links ]_vars

\* C17 as amended: outside the sysroot case, when a check unit name can be made
\* from the device path the call returns 0, appends the pair of
\* systemd-fsck@<escaped device>.service and creates neither a file nor a link;
\* when none can be made it returns that failure and appends nothing.
C17_FsckPairNamed ==
    [][ FsckNonRoot(last')
        => IF FsckSysroot(last') THEN FsckSysrootPair
           ELSE LET u == unit_name_from_path_instance("systemd-fsck", last'.args.what,
                                                      ".service")
                IN  /\ files' = files /\ links' = links
                    /\ IF u.r >= 0
                       THEN last'.ret = 0 /\ FsckPairAppended(u.name)
                       ELSE last'.ret = u.r /\ unitf' = unitf ]_vars

C17_Witness ==
    /\ last.op = "write_fsck_deps"
    /\ initrd
    /\ last.args.where = <<"", "sysroot">>
    /\ last.args.what = <<"", "dev", "sda1">>
    /\ last.ret = -EEXIST
    /\ unitf = <<"Requires=systemd-fsck-root.service", "After=systemd-fsck-root.service">>
    /\ Len(files["systemd-fsck-root.service"]) > 2

\* C18: generator_write_fsck_deps for something that is no device path, or for a
\* type other than "auto" whose checker is not there, returns 0 and changes nothing:
\* no link, no file, nothing appended to the caller's unit body.  When the probe
\* for the checker fails the call goes on: if it returns 0 it has made the root
\* check link (mount point /) or appended the Requires=/After= pair.
C18_FsckSkips ==
    [][ last'.op = "write_fsck_deps"
        => LET a == last'.args
               typed == a.fstype \notin {NULL, "", "auto"}
           IN  /\ (~is_device_path(a.what) \/ (typed /\ a.probe = 0))
                  => (last'.ret = 0 /\ OutputDirUnchanged /\ unitf' = unitf)
               /\ (is_device_path(a.what) /\ typed /\ a.probe < 0 /\ last'.ret = 0)
                  => IF path_equal(a.where, Root)
                     THEN \E l \in links' : /\ l.dir = "local-fs.target.wants"
                                            /\ l.name = "systemd-fsck-root.service"
                     ELSE /\ Len(unitf') = Len(unitf) + 2
                          /\ SubSeq(unitf', 1, Len(unitf)) = unitf ]_vars

C18_Witness ==
    /\ last.op = "write_fsck_deps"
    /\ last.args.fstype = "ext4"
    /\ last.args.probe = 0
    /\ last.args.where = <<"", "">>
    /\ is_device_path(last.args.what)
    /\ last.ret = 0
    /\ links = {}
    /\ unitf = <<"Requires=systemd-fsck@dev-sda1.service", "After=systemd-fsck@dev-sda1.service">>

====
